---- MODULE Spec2Model ----
(***************************************************************************)
(* State-machine model of the serialPort_C library (Windows COM-port       *)
(* wrapper).  Two builds of the library are in the repository:             *)
(*   "lib" : src/unnamed/part_001 lines 1-250 (with the event thread),     *)
(*   "c"   : src/serialPort.c (setBaud/setTimeouts before CreateFileA).    *)
(* The operating system (handles, the device control block, the timeouts,  *)
(* the input queue and the EV_RXCHAR event latch of one COM device) is the *)
(* environment of the library and is modelled from the Win32 contract of   *)
(* the calls the code makes.                                               *)
(*                                                                         *)
(* A 32-bit word is represented by the signed value of its bit pattern     *)
(* (0xFFFFFFFF is -1), a 64-bit value by the record of its two words.      *)
(*                                                                         *)
(* An API call is one step; the monitoring thread MonitorSerialRX takes     *)
(* one step per call it makes, so that arrivals and API calls interleave    *)
(* with its loop.  A read of more bytes than are queued is taken to end at  *)
(* its timeout.  input_buf holds 4096 bytes; the bounds keep the queue far  *)
(* below that, so its overflow is outside the model.                        *)
(***************************************************************************)
EXTENDS Integers, Sequences, FiniteSets, TLC

VARIABLES
    build,      \* which translation unit is linked: "lib" or "c"
    faultsLeft, \* how many more OS calls on a valid object may fail
    port,       \* the serial_port_t structure
    hOpen,      \* the set of handle values that are open on the device
    dev,        \* the COM device: DCB, COMMTIMEOUTS, input queue, wait mask, event latch
    thr,        \* the monitoring threads: position and the local `bytes`
    input_buf,  \* the global input_buf the monitoring threads read into
    crashed,    \* the process has taken an access violation
    arrived,    \* history: the bytes that arrived on the open device, in order,
                \* each with whether a monitoring thread was serving the port then
    delivered,  \* history: the bytes passed to the callback, in order
    call,       \* the most recent API call: its name, arguments, result and OS calls
    nCalls      \* the number of API calls made so far

vars == <<build, faultsLeft, port, hOpen, dev, thr, input_buf, crashed,
          arrived, delivered, call, nCalls>>

---------------------------------------------------------------------------
\* Bounds of the model.
MaxHandles == 2     \* handle values the OS hands out
MaxThreads == 1     \* monitoring threads the OS lets the process create
MaxArrive == 2      \* bytes that arrive on the device in a behaviour
MaxDelivered == 3   \* bytes recorded in the delivered history
MaxCalls == 3       \* API calls the application makes in a behaviour
MaxFaults == 1      \* OS calls that fail although their handle is valid

---------------------------------------------------------------------------
\* serial_port_err_t
SERIAL_ERR_OK == 0
SERIAL_ERR_OPEN == 1
SERIAL_ERR_CLOSE == 2
SERIAL_ERR_UNKNOWN == 3
SERIAL_ERR_READ_UNKNOWN == 4
SERIAL_ERR_READ_SIZE_MISMATCH == 5
SERIAL_ERR_WRITE_UNKNOWN == 6
SERIAL_ERR_WRITE_SIZE_MISMATCH == 7

\* Win32 constants the code uses
INVALID_HANDLE_VALUE == -1
NULL == 0
EV_RXCHAR == 1

Handles == 1..MaxHandles
Threads == 1..MaxThreads

\* 64-bit values as <hi word, lo word>
U64(h, l) == [hi |-> h, lo |-> l]
\* uint32_t -> uint64_t (zero extension)
FromU32(w) == U64(0, w)
\* int -> uint64_t (sign extension), as in serialPortRead(serial, input_buf, bytes)
FromInt(i) == U64(IF i < 0 THEN -1 ELSE 0, i)
\* uint64_t -> DWORD / uint32_t: the low word is kept
Trunc32(x) == x.lo
\* unsigned minimum of a DWORD request and a queue length
UMin(n, len) == IF n < 0 \/ n > len THEN len ELSE n

\* Input sets of the API calls
Names == {"COM1", "COM9"}          \* COM1 is the device; COM9 does not exist
BaudArgs == {U64(0, 9600), U64(1, 9600)}
OpenTimeoutArgs == {100}
TimeoutArgs == {<<U64(0, 200), U64(0, 300)>>, <<U64(1, 200), U64(1, 300)>>}
SizeArgs == {U64(0, 1), U64(0, 2), U64(1, 1)}
HandlerArgs == {NULL, 1}
\* what the upper word of an uninitialised uint64_t local may hold
GarbageWords == {0, 1}

\* An API call is made by the application thread of a running process
ApiCall ==
    /\ ~crashed
    /\ nCalls < MaxCalls
    /\ nCalls' = nCalls + 1

\* Results an OS call may have on a valid handle
OsOutcomes == IF faultsLeft > 0 THEN {TRUE, FALSE} ELSE {TRUE}
\* Results of an OS call on handle h
OsResults(h) == IF h \in hOpen THEN OsOutcomes ELSE {FALSE}
\* 1 when the call on h failed although h is open, else 0
Fault(open, h, ok) == IF h \in open /\ ~ok THEN 1 ELSE 0
\* nf calls failed on valid objects in this step
Faults(nf) ==
    /\ nf <= faultsLeft
    /\ faultsLeft' = faultsLeft - nf

\* The serial_port_t before the first call: zeroed (static storage) or holding
\* what the stack held (automatic storage)
UninitPorts ==
    {[handle |-> NULL, name |-> "none", isOpen |-> FALSE, baud |-> U64(0, 0),
      readTimeout |-> 0, writeTimeout |-> 0, serialEventHandler |-> NULL],
     [handle |-> 1, name |-> "none", isOpen |-> TRUE, baud |-> U64(0, 0),
      readTimeout |-> 0, writeTimeout |-> 0, serialEventHandler |-> 1]}

NoCall == [op |-> "none", ret |-> 0, os |-> <<>>, arg |-> <<>>]
OsCall(api, h, ok) == [api |-> api, h |-> h, ok |-> ok]

Init ==
    /\ build \in {"lib", "c"}
    /\ faultsLeft \in {0, MaxFaults}
    /\ port \in UninitPorts
    /\ hOpen = {}
    /\ dev = [BaudRate |-> 1200, ByteSize |-> 8,
              ReadIntervalTimeout |-> 0, ReadTotalTimeoutConstant |-> 0,
              ReadTotalTimeoutMultiplier |-> 0, WriteTotalTimeoutConstant |-> 0,
              WriteTotalTimeoutMultiplier |-> 0,
              inQ |-> <<>>, mask |-> 0, ev |-> FALSE]
    /\ thr = [t \in Threads |-> [pc |-> "none", bytes |-> 0]]
    /\ input_buf = <<>>
    /\ crashed = FALSE
    /\ arrived = <<>>
    /\ delivered = <<>>
    /\ call = NoCall
    /\ nCalls = 0

---------------------------------------------------------------------------
\* The OS calls (environment), as functions of the state they act on.

\* Results of an OS call on handle h when `open` is the set of open handles
OsResultsIn(open, h) == IF h \in open THEN OsOutcomes ELSE {FALSE}

\* CreateFileA(name, ..., FILE_NO_SHARED_ACCESS, ..., OPEN_EXISTING, ...): the handle
\* values it may return.  The device is opened exclusively, so it fails while a
\* handle is open on it; it fails for a name that is no device.
CreateFileA(name) ==
    IF name = "COM1" /\ hOpen = {}
    THEN Handles \cup (IF faultsLeft > 0 THEN {INVALID_HANDLE_VALUE} ELSE {})
    ELSE {INVALID_HANDLE_VALUE}

\* The device after a successful open: empty queue, no wait mask, no latched event
DevOpened(d) == [d EXCEPT !.inQ = <<>>, !.mask = 0, !.ev = FALSE]

\* GetCommState: the DCB of the device
GetCommState(d) == [BaudRate |-> d.BaudRate, ByteSize |-> d.ByteSize]
\* SetCommState: the device with the DCB written
SetCommState(d, dcb) == [d EXCEPT !.BaudRate = dcb.BaudRate, !.ByteSize = dcb.ByteSize]
\* SetCommTimeouts: the device with the COMMTIMEOUTS written
SetCommTimeouts(d, to) ==
    [d EXCEPT !.ReadIntervalTimeout = to.ReadIntervalTimeout,
              !.ReadTotalTimeoutConstant = to.ReadTotalTimeoutConstant,
              !.ReadTotalTimeoutMultiplier = to.ReadTotalTimeoutMultiplier,
              !.WriteTotalTimeoutConstant = to.WriteTotalTimeoutConstant,
              !.WriteTotalTimeoutMultiplier = to.WriteTotalTimeoutMultiplier]

---------------------------------------------------------------------------
\* setTimeouts as it would be if it marked the port closed when SetCommTimeouts fails
setTimeoutsResClosing(p, d, readTimeout, writeTimeout, ok) ==
    [port |-> [p EXCEPT !.readTimeout = Trunc32(readTimeout),
                        !.writeTimeout = Trunc32(writeTimeout),
                        !.isOpen = p.isOpen /\ ok],
     dev |-> IF ok
             THEN SetCommTimeouts(d, [ReadIntervalTimeout |-> 0,
                                      ReadTotalTimeoutConstant |-> Trunc32(readTimeout),
                                      ReadTotalTimeoutMultiplier |-> 0,
                                      WriteTotalTimeoutConstant |-> Trunc32(writeTimeout),
                                      WriteTotalTimeoutMultiplier |-> 0])
             ELSE d,
     ret |-> IF ok THEN SERIAL_ERR_OK ELSE SERIAL_ERR_UNKNOWN,
     os |-> <<OsCall("SetCommTimeouts", p.handle, ok)>>]

\* setTimeouts(port, readTimeout, writeTimeout) on structure p and device d, when
\* SetCommTimeouts has result ok: the structure, the device, the return value and
\* the OS calls made.
setTimeoutsRes(p, d, readTimeout, writeTimeout, ok) ==
    LET timeouts == [ReadIntervalTimeout |-> 0,
                     ReadTotalTimeoutConstant |-> Trunc32(readTimeout),
                     ReadTotalTimeoutMultiplier |-> 0,
                     WriteTotalTimeoutConstant |-> Trunc32(writeTimeout),
                     WriteTotalTimeoutMultiplier |-> 0]
        p1 == [p EXCEPT !.readTimeout = Trunc32(readTimeout),
                        !.writeTimeout = Trunc32(writeTimeout)]
    IN  [port |-> p1,
         dev |-> IF ok THEN SetCommTimeouts(d, timeouts) ELSE d,
         ret |-> IF ok THEN SERIAL_ERR_OK ELSE SERIAL_ERR_UNKNOWN,
         os |-> <<OsCall("SetCommTimeouts", p.handle, ok)>>]

\* setBaud(port, baudRate) on structure p and device d, when GetCommState has result
\* okGet and SetCommState has result okSet.
setBaudRes(p, d, baudRate, okGet, okSet) ==
    IF ~okGet
    THEN [port |-> p, dev |-> d, ret |-> SERIAL_ERR_UNKNOWN,
          os |-> <<OsCall("GetCommState", p.handle, FALSE)>>]
    ELSE LET dcb == [GetCommState(d) EXCEPT !.BaudRate = Trunc32(baudRate)]
             p1 == [p EXCEPT !.baud = baudRate]
         IN  [port |-> p1,
              dev |-> IF okSet THEN SetCommState(d, dcb) ELSE d,
              ret |-> IF okSet THEN SERIAL_ERR_OK ELSE SERIAL_ERR_UNKNOWN,
              os |-> <<OsCall("GetCommState", p.handle, TRUE),
                       OsCall("SetCommState", p.handle, okSet)>>]

\* Calls of setBaud that failed on a valid handle (SetCommState is only reached
\* when GetCommState succeeded)
setBaudFaults(open, h, okGet, okSet) ==
    Fault(open, h, okGet) + (IF okGet THEN Fault(open, h, okSet) ELSE 0)

\* 1 when CreateFileA failed although the device exists and is not open
CreateFault(name, h) ==
    IF name = "COM1" /\ hOpen = {} /\ h = INVALID_HANDLE_VALUE THEN 1 ELSE 0

\* serialPortOpen as it would be if it propagated the result of setBaud
OpenRetPropagating(h, retBaud, retTimeouts) ==
    IF h = INVALID_HANDLE_VALUE THEN SERIAL_ERR_OPEN
    ELSE IF retBaud # SERIAL_ERR_OK THEN retBaud
    ELSE SERIAL_ERR_OK

\* The return value of serialPortOpen: h is the handle CreateFileA returned, retBaud
\* and retTimeouts the (discarded) results of setBaud and setTimeouts.
OpenRet(h, retBaud, retTimeouts) ==
    IF h = INVALID_HANDLE_VALUE THEN SERIAL_ERR_OPEN ELSE SERIAL_ERR_OK

\* The structure and OS state after CreateFileA returned h
AfterCreate(p, h) ==
    [port |-> [p EXCEPT !.handle = h],
     open |-> IF h = INVALID_HANDLE_VALUE THEN hOpen ELSE hOpen \cup {h},
     dev |-> IF h = INVALID_HANDLE_VALUE THEN dev ELSE DevOpened(dev)]

\* serialPortOpen of build "lib": CreateFileA, then setBaud and setTimeouts
serialPortOpenLib(name, baud, readTimeout, writeTimeout) ==
    /\ build = "lib"
    /\ ApiCall
    /\ \E h \in CreateFileA(name) :
        LET p0 == [port EXCEPT !.name = name, !.baud = baud, !.isOpen = FALSE,
                               !.readTimeout = readTimeout,
                               !.writeTimeout = writeTimeout]
            c == AfterCreate(p0, h)
        IN  \E okGet \in OsResultsIn(c.open, h) :
            \E okSet \in OsResultsIn(c.open, h) :
            \E okTo \in OsResultsIn(c.open, h) :
              LET b == setBaudRes(c.port, c.dev, baud, okGet, okSet)
                  t == setTimeoutsRes(b.port, b.dev, FromU32(readTimeout),
                                      FromU32(writeTimeout), okTo)
                  ret == OpenRet(h, b.ret, t.ret)
              IN  /\ Faults(CreateFault(name, h) + setBaudFaults(c.open, h, okGet, okSet)
                            + Fault(c.open, h, okTo))
                  /\ port' = IF h = INVALID_HANDLE_VALUE
                             THEN t.port
                             ELSE [t.port EXCEPT !.isOpen = TRUE,
                                                 !.serialEventHandler = NULL]
                  /\ hOpen' = c.open
                  /\ dev' = t.dev
                  /\ call' = [op |-> "serialPortOpen", ret |-> ret,
                              os |-> <<OsCall("CreateFileA", h, h # INVALID_HANDLE_VALUE)>>
                                     \o b.os \o t.os,
                              arg |-> <<name, baud, readTimeout, writeTimeout>>]
    /\ UNCHANGED <<build, thr, input_buf, crashed, arrived, delivered>>

\* serialPortOpen of build "c": setBaud and setTimeouts on the handle the structure
\* holds on entry, then CreateFileA
serialPortOpenC(name, baud, readTimeout, writeTimeout) ==
    /\ build = "c"
    /\ ApiCall
    /\ LET p0 == [port EXCEPT !.name = name, !.baud = baud, !.isOpen = FALSE,
                              !.readTimeout = readTimeout,
                              !.writeTimeout = writeTimeout]
       IN  \E okGet \in OsResults(p0.handle) :
           \E okSet \in OsResults(p0.handle) :
           \E okTo \in OsResults(p0.handle) :
             LET b == setBaudRes(p0, dev, baud, okGet, okSet)
                 t == setTimeoutsRes(b.port, b.dev, FromU32(readTimeout),
                                     FromU32(writeTimeout), okTo)
             IN  \E h \in CreateFileA(name) :
                   LET ret == OpenRet(h, b.ret, t.ret)
                   IN  /\ Faults(setBaudFaults(hOpen, p0.handle, okGet, okSet)
                                 + Fault(hOpen, p0.handle, okTo) + CreateFault(name, h))
                       /\ port' = IF h = INVALID_HANDLE_VALUE
                                  THEN [t.port EXCEPT !.handle = h]
                                  ELSE [t.port EXCEPT !.handle = h, !.isOpen = TRUE]
                       /\ hOpen' = IF h = INVALID_HANDLE_VALUE THEN hOpen
                                   ELSE hOpen \cup {h}
                       /\ dev' = IF h = INVALID_HANDLE_VALUE THEN t.dev
                                 ELSE DevOpened(t.dev)
                       /\ call' = [op |-> "serialPortOpen", ret |-> ret,
                                   os |-> b.os \o t.os \o
                                     <<OsCall("CreateFileA", h, h # INVALID_HANDLE_VALUE)>>,
                                   arg |-> <<name, baud, readTimeout, writeTimeout>>]
    /\ UNCHANGED <<build, thr, input_buf, crashed, arrived, delivered>>

serialPortOpen(name, baud, readTimeout, writeTimeout) ==
    \/ serialPortOpenLib(name, baud, readTimeout, writeTimeout)
    \/ serialPortOpenC(name, baud, readTimeout, writeTimeout)

\* The return value of serialPortClose when CloseHandle has result ok
CloseRet(ok) == IF ok THEN SERIAL_ERR_OK ELSE SERIAL_ERR_CLOSE

\* serialPortClose as it would be if it cleared isOpen before testing CloseHandle
ClosePortAlways(p, ok) == [p EXCEPT !.isOpen = FALSE]

\* The structure after serialPortClose when CloseHandle has result ok
ClosePort(p, ok) == IF ok THEN [p EXCEPT !.isOpen = FALSE] ELSE p

\* serialPortClose(port): CloseHandle(port->handle)
serialPortClose ==
    /\ ApiCall
    /\ \E ok \in OsResults(port.handle) :
        /\ Faults(Fault(hOpen, port.handle, ok))
        /\ port' = ClosePort(port, ok)
        /\ hOpen' = IF ok THEN hOpen \ {port.handle} ELSE hOpen
        /\ call' = [op |-> "serialPortClose", ret |-> CloseRet(ok),
                    os |-> <<OsCall("CloseHandle", port.handle, ok)>>,
                    arg |-> <<>>]
    /\ UNCHANGED <<build, dev, thr, input_buf, crashed, arrived, delivered>>

\* setBaud(port, baudRate) as an API call
setBaud(baudRate) ==
    /\ ApiCall
    /\ \E okGet \in OsResults(port.handle) :
       \E okSet \in OsResults(port.handle) :
         LET b == setBaudRes(port, dev, baudRate, okGet, okSet)
         IN  /\ Faults(setBaudFaults(hOpen, port.handle, okGet, okSet))
             /\ port' = b.port
             /\ dev' = b.dev
             /\ call' = [op |-> "setBaud", ret |-> b.ret, os |-> b.os,
                         arg |-> <<baudRate>>]
    /\ UNCHANGED <<build, hOpen, thr, input_buf, crashed, arrived, delivered>>

\* setTimeouts(port, readTimeout, writeTimeout) as an API call
setTimeouts(readTimeout, writeTimeout) ==
    /\ ApiCall
    /\ \E ok \in OsResults(port.handle) :
         LET t == setTimeoutsRes(port, dev, readTimeout, writeTimeout, ok)
         IN  /\ Faults(Fault(hOpen, port.handle, ok))
             /\ port' = t.port
             /\ dev' = t.dev
             /\ call' = [op |-> "setTimeouts", ret |-> t.ret, os |-> t.os,
                         arg |-> <<readTimeout, writeTimeout>>]
    /\ UNCHANGED <<build, hOpen, thr, input_buf, crashed, arrived, delivered>>

\* The value of the local `uint64_t bytesRead` / `bytesWrite` after the OS call
\* stored the DWORD count n through (LPDWORD)&local: the low word is n, the high
\* word is what the uninitialised local held.
CountLocal(garbage, n) == U64(garbage, n)

\* The return value of serialPortRead: ok is ReadFile's result
ReadRet(ok, bytesRead, size) ==
    IF ~ok THEN SERIAL_ERR_READ_UNKNOWN
    ELSE IF bytesRead # size THEN SERIAL_ERR_READ_SIZE_MISMATCH
    ELSE SERIAL_ERR_OK

\* ReadFile(h, buf, (DWORD)size, ...) on device d with result ok: the bytes
\* transferred.  A read of more bytes than are queued ends at the read timeout
\* with the bytes that are there.
ReadFile(d, n, ok) == IF ok THEN SubSeq(d.inQ, 1, UMin(n, Len(d.inQ))) ELSE <<>>

\* serialPortRead(port, buf, size) on device d: the bytes read, the device, the
\* return value and the OS calls made
serialPortReadRes(p, d, size, ok, garbage) ==
    LET data == ReadFile(d, Trunc32(size), ok)
        bytesRead == CountLocal(garbage, Len(data))
    IN  [data |-> data,
         dev |-> [d EXCEPT !.inQ = SubSeq(d.inQ, Len(data) + 1, Len(d.inQ))],
         ret |-> ReadRet(ok, bytesRead, size),
         os |-> <<OsCall("ReadFile", p.handle, ok)>>]

\* serialPortRead(port, buf, size) as an API call (into the caller's buffer)
serialPortRead(size) ==
    /\ ApiCall
    /\ \E ok \in OsResults(port.handle) :
       \E garbage \in GarbageWords :
         LET r == serialPortReadRes(port, dev, size, ok, garbage)
         IN  /\ Faults(Fault(hOpen, port.handle, ok))
             /\ dev' = r.dev
             /\ call' = [op |-> "serialPortRead", ret |-> r.ret, os |-> r.os,
                         arg |-> <<size, Len(r.data), garbage>>]
    /\ UNCHANGED <<build, port, hOpen, thr, input_buf, crashed,
                   arrived, delivered>>

\* The return value of serialPortWrite: ok is WriteFile's result
WriteRet(ok, bytesWrite, size) ==
    IF ~ok THEN SERIAL_ERR_WRITE_UNKNOWN
    ELSE IF bytesWrite # size THEN SERIAL_ERR_WRITE_SIZE_MISMATCH
    ELSE SERIAL_ERR_OK

\* WriteFile(h, buf, (DWORD)size, ...): the counts it may transfer (all of them,
\* or fewer when the write timeout ends it)
WriteFile(n, ok) == IF ok THEN 0..n ELSE {0}

\* serialPortWrite(port, buf, size) as an API call
serialPortWrite(size) ==
    /\ ApiCall
    /\ \E ok \in OsResults(port.handle) :
       \E garbage \in GarbageWords :
       \E n \in WriteFile(Trunc32(size), ok) :
         /\ Faults(Fault(hOpen, port.handle, ok))
         /\ call' = [op |-> "serialPortWrite",
                     ret |-> WriteRet(ok, CountLocal(garbage, n), size),
                     os |-> <<OsCall("WriteFile", port.handle, ok)>>,
                     arg |-> <<size, n, garbage>>]
    /\ UNCHANGED <<build, port, hOpen, dev, thr, input_buf, crashed,
                   arrived, delivered>>

\* The return value of bytesAvailable: ok is ClearCommError's result
bytesAvailableRet(d, ok) == IF ok THEN Len(d.inQ) ELSE -1

\* bytesAvailable(hSerial) as an API call
bytesAvailable ==
    /\ build = "lib"
    /\ ApiCall
    /\ \E ok \in OsResults(port.handle) :
         /\ Faults(Fault(hOpen, port.handle, ok))
         /\ call' = [op |-> "bytesAvailable", ret |-> bytesAvailableRet(dev, ok),
                     os |-> <<OsCall("ClearCommError", port.handle, ok)>>,
                     arg |-> <<>>]
    /\ UNCHANGED <<build, port, hOpen, dev, thr, input_buf, crashed,
                   arrived, delivered>>

\* The return value of enableSerialEvent: registered is hSerial->serialEventHandler
\* on entry, started whether CreateThread gave a thread
enableSerialEventRet(event_handler, registered, started) ==
    IF event_handler = NULL THEN SERIAL_ERR_UNKNOWN
    ELSE IF registered = NULL THEN SERIAL_ERR_OK
    ELSE SERIAL_ERR_UNKNOWN

\* The thread slots CreateThread may use
FreeThreads == {t \in Threads : thr[t].pc = "none"}

\* enableSerialEvent(hSerial, event_handler)
enableSerialEvent(event_handler) ==
    /\ build = "lib"
    /\ ApiCall
    /\ \E ok \in OsOutcomes :
         LET started == ok /\ FreeThreads # {}
             create == event_handler # NULL /\ port.serialEventHandler = NULL
         IN  /\ create \/ ok
             /\ Faults(IF ok THEN 0 ELSE 1)
             /\ port' = IF create
                        THEN [port EXCEPT !.serialEventHandler = event_handler]
                        ELSE port
             /\ thr' = IF create /\ started
                       THEN [thr EXCEPT ![CHOOSE t \in FreeThreads : TRUE] =
                                          [pc |-> "SetCommMask", bytes |-> 0]]
                       ELSE thr
             /\ call' = [op |-> "enableSerialEvent",
                         ret |-> enableSerialEventRet(event_handler,
                                                      port.serialEventHandler, started),
                         os |-> IF create THEN <<OsCall("CreateThread", NULL, started)>>
                                ELSE <<>>,
                         arg |-> <<event_handler, port.serialEventHandler>>]
    /\ UNCHANGED <<build, hOpen, dev, input_buf, crashed, arrived, delivered>>

---------------------------------------------------------------------------
\* The monitoring thread MonitorSerialRX, one action per call of its loop.

\* isDataAvailable, first half: SetCommMask(handle, EV_RXCHAR).  On failure
\* isDataAvailable returns -1 without waiting.
MonSetCommMask(t) ==
    /\ ~crashed
    /\ thr[t].pc = "SetCommMask"
    /\ \E ok \in OsResults(port.handle) :
        /\ Faults(Fault(hOpen, port.handle, ok))
        /\ dev' = IF ok THEN [dev EXCEPT !.mask = EV_RXCHAR] ELSE dev
        /\ thr' = [thr EXCEPT ![t].pc = IF ok THEN "WaitCommEvent" ELSE "bytesAvailable"]
    /\ UNCHANGED <<nCalls, build, port, hOpen, input_buf, crashed, arrived,
                   delivered, call>>

\* isDataAvailable, second half: WaitCommEvent(handle, &eventMask, NULL).  It
\* returns at once with failure on a closed handle or with no wait mask set,
\* returns with EV_RXCHAR when a receive event is latched, and blocks otherwise.
\* The result of isDataAvailable is discarded by the loop.
MonWaitCommEvent(t) ==
    /\ ~crashed
    /\ thr[t].pc = "WaitCommEvent"
    /\ \/ /\ port.handle \notin hOpen \/ dev.mask = 0
          /\ Faults(0)
          /\ dev' = dev
       \/ /\ port.handle \in hOpen /\ dev.mask = EV_RXCHAR
          /\ Faults(1)
          /\ dev' = dev
       \/ /\ port.handle \in hOpen /\ dev.mask = EV_RXCHAR /\ dev.ev
          /\ Faults(0)
          /\ dev' = [dev EXCEPT !.ev = FALSE]
    /\ thr' = [thr EXCEPT ![t].pc = "bytesAvailable"]
    /\ UNCHANGED <<nCalls, build, port, hOpen, input_buf, crashed, arrived,
                   delivered, call>>

\* int bytes = bytesAvailable(serial)
MonBytesAvailable(t) ==
    /\ ~crashed
    /\ thr[t].pc = "bytesAvailable"
    /\ \E ok \in OsResults(port.handle) :
         /\ Faults(Fault(hOpen, port.handle, ok))
         /\ thr' = [thr EXCEPT ![t] = [pc |-> "serialPortRead",
                                       bytes |-> bytesAvailableRet(dev, ok)]]
    /\ UNCHANGED <<nCalls, build, port, hOpen, dev, input_buf, crashed, arrived,
                   delivered, call>>

\* input_buf after a read stored `data` at its start
StoreBuf(buf, data) == data \o SubSeq(buf, Len(data) + 1, Len(buf))

\* serialPortRead(serial, input_buf, bytes); its result is discarded
MonSerialPortRead(t) ==
    /\ ~crashed
    /\ thr[t].pc = "serialPortRead"
    /\ \E ok \in OsResults(port.handle) :
       \E garbage \in GarbageWords :
         LET r == serialPortReadRes(port, dev, FromInt(thr[t].bytes), ok, garbage)
         IN  /\ Faults(Fault(hOpen, port.handle, ok))
             /\ dev' = r.dev
             /\ input_buf' = StoreBuf(input_buf, r.data)
    /\ thr' = [thr EXCEPT ![t].pc = "handler"]
    /\ UNCHANGED <<nCalls, build, port, hOpen, crashed, arrived, delivered, call>>

\* The first n bytes of input_buf (a zero-initialised global: 0 where nothing was stored)
BufPrefix(buf, n) == [i \in 1..n |-> IF i <= Len(buf) THEN buf[i] ELSE 0]

\* The bytes the callback is handed by serialEventHandler(input_buf, bytes)
Passed(buf, bytes) == IF bytes > 0 THEN BufPrefix(buf, bytes) ELSE <<>>

\* serial->serialEventHandler(input_buf, bytes): a call through NULL is an access
\* violation that ends the process
MonHandler(t) ==
    /\ ~crashed
    /\ thr[t].pc = "handler"
    /\ IF port.serialEventHandler = NULL
       THEN /\ crashed' = TRUE
            /\ UNCHANGED <<thr, delivered>>
       ELSE /\ Len(delivered) + Len(Passed(input_buf, thr[t].bytes)) <= MaxDelivered
            /\ delivered' = delivered \o Passed(input_buf, thr[t].bytes)
            /\ thr' = [thr EXCEPT ![t].pc = "SetCommMask"]
            /\ UNCHANGED crashed
    /\ UNCHANGED <<nCalls, build, faultsLeft, port, hOpen, dev, input_buf, arrived, call>>

MonitorSerialRX(t) ==
    \/ MonSetCommMask(t)
    \/ MonWaitCommEvent(t)
    \/ MonBytesAvailable(t)
    \/ MonSerialPortRead(t)
    \/ MonHandler(t)

---------------------------------------------------------------------------
\* The port is open with a handler registered and a monitoring thread started
Monitoring ==
    /\ port.isOpen
    /\ port.handle \in hOpen
    /\ port.serialEventHandler # NULL
    /\ \E t \in Threads : thr[t].pc # "none"

\* Environment: a byte arrives on the open device.  It is queued, and a receive
\* event is latched when the wait mask holds EV_RXCHAR.  Bytes are numbered in
\* arrival order.
Arrive ==
    /\ ~crashed
    /\ hOpen # {}
    /\ Len(arrived) < MaxArrive
    /\ LET b == Len(arrived) + 1
       IN  /\ dev' = [dev EXCEPT !.inQ = Append(dev.inQ, b),
                                 !.ev = dev.ev \/ dev.mask = EV_RXCHAR]
           /\ arrived' = Append(arrived, [byte |-> b, monitored |-> Monitoring])
    /\ UNCHANGED <<nCalls, build, faultsLeft, port, hOpen, thr, input_buf, crashed,
                   delivered, call>>

Next ==
    \/ \E name \in Names, baud \in BaudArgs, rt \in OpenTimeoutArgs, wt \in OpenTimeoutArgs :
         serialPortOpen(name, baud, rt, wt)
    \/ serialPortClose
    \/ \E baudRate \in BaudArgs : setBaud(baudRate)
    \/ \E to \in TimeoutArgs : setTimeouts(to[1], to[2])
    \/ \E size \in SizeArgs : serialPortRead(size)
    \/ \E size \in SizeArgs : serialPortWrite(size)
    \/ bytesAvailable
    \/ \E h \in HandlerArgs : enableSerialEvent(h)
    \/ \E t \in Threads : MonitorSerialRX(t)
    \/ Arrive

Spec == Init /\ [][Next]_vars

\* The monitored port left alone: the application opens the port, registers a
\* handler and makes no other call; no OS call fails; the monitoring threads
\* are scheduled fairly.
InitMon == Init /\ build = "lib" /\ faultsLeft = 0

NextMon ==
    \/ /\ hOpen = {}
       /\ \E name \in Names, baud \in BaudArgs, rt \in OpenTimeoutArgs,
             wt \in OpenTimeoutArgs : serialPortOpenLib(name, baud, rt, wt)
    \/ \E h \in HandlerArgs : enableSerialEvent(h)
    \/ \E t \in Threads : MonitorSerialRX(t)
    \/ Arrive

SpecMon ==
    /\ InitMon
    /\ [][NextMon]_vars
    /\ \A t \in Threads : WF_vars(MonitorSerialRX(t))

---------------------------------------------------------------------------
\* Properties.

\* The step is the API call op
Step(op) == nCalls' = nCalls + 1 /\ call'.op = op

\* The OS calls of the most recent API call that went to api
OsCallsTo(api) == {i \in DOMAIN call.os : call.os[i].api = api}
ConfigApis == {"GetCommState", "SetCommState", "SetCommTimeouts"}

\* C1: serialPortOpen returns SERIAL_ERR_OK exactly when CreateFileA gave a valid
\* handle and SERIAL_ERR_OPEN exactly when it gave INVALID_HANDLE_VALUE; it
\* returns nothing else, whatever the results of setBaud and setTimeouts were.
C1_OpenReturn ==
    call.op = "serialPortOpen" =>
        \A i \in OsCallsTo("CreateFileA") :
            /\ call.ret \in {SERIAL_ERR_OK, SERIAL_ERR_OPEN}
            /\ (call.ret = SERIAL_ERR_OK) <=> (call.os[i].h # INVALID_HANDLE_VALUE)
            /\ (call.ret = SERIAL_ERR_OPEN) <=> (call.os[i].h = INVALID_HANDLE_VALUE)

\* An open that returned SERIAL_ERR_OK although SetCommState failed on the new handle
C1_Witness ==
    /\ call.op = "serialPortOpen"
    /\ call.ret = SERIAL_ERR_OK
    /\ \E i \in OsCallsTo("CreateFileA") : \E j \in OsCallsTo("SetCommState") :
         /\ call.os[j].h = call.os[i].h
         /\ ~call.os[j].ok

\* C2: after serialPortOpen returned SERIAL_ERR_OK, the configuration calls of
\* that open (GetCommState, SetCommState, SetCommTimeouts) were issued after
\* CreateFileA and on the handle it returned.
C2_ConfigOnNewHandle ==
    (call.op = "serialPortOpen" /\ call.ret = SERIAL_ERR_OK) =>
        \A i \in OsCallsTo("CreateFileA") : \A j \in DOMAIN call.os :
            call.os[j].api \in ConfigApis => (j > i /\ call.os[j].h = call.os[i].h)

\* C3: serialPortClose returns SERIAL_ERR_OK and clears isOpen when CloseHandle
\* succeeds; otherwise it returns SERIAL_ERR_CLOSE and leaves the structure as it
\* was; a close directly after a successful close returns SERIAL_ERR_CLOSE.
C3_Close ==
    [][Step("serialPortClose") =>
        /\ call'.os[1].ok =>
             /\ call'.ret = SERIAL_ERR_OK
             /\ port'.isOpen = FALSE
        /\ ~call'.os[1].ok =>
             /\ call'.ret = SERIAL_ERR_CLOSE
             /\ port' = port
        /\ (call.op = "serialPortClose" /\ call.ret = SERIAL_ERR_OK) =>
             call'.ret = SERIAL_ERR_CLOSE]_vars

\* An opened port closed twice: the second close failed
C3_Witness ==
    /\ nCalls = 3
    /\ port.name = "COM1"
    /\ port.handle \in Handles
    /\ ~port.isOpen
    /\ call.op = "serialPortClose"
    /\ call.ret = SERIAL_ERR_CLOSE

\* C4: serialPortRead returns SERIAL_ERR_OK exactly when ReadFile succeeded and
\* transferred size bytes, SERIAL_ERR_READ_SIZE_MISMATCH exactly when it
\* succeeded and transferred another number, and SERIAL_ERR_READ_UNKNOWN exactly
\* when it failed.
C4_ReadOutcome ==
    call.op = "serialPortRead" =>
        LET ok == call.os[1].ok
            size == call.arg[1]
            transferred == FromU32(call.arg[2])
        IN  /\ (call.ret = SERIAL_ERR_OK) <=> (ok /\ transferred = size)
            /\ (call.ret = SERIAL_ERR_READ_SIZE_MISMATCH) <=> (ok /\ transferred # size)
            /\ (call.ret = SERIAL_ERR_READ_UNKNOWN) <=> ~ok

\* C5: serialPortWrite returns SERIAL_ERR_OK exactly when WriteFile succeeded and
\* transferred size bytes, SERIAL_ERR_WRITE_SIZE_MISMATCH exactly when it
\* succeeded and transferred another number, and SERIAL_ERR_WRITE_UNKNOWN
\* exactly when it failed.
C5_WriteOutcome ==
    call.op = "serialPortWrite" =>
        LET ok == call.os[1].ok
            size == call.arg[1]
            transferred == FromU32(call.arg[2])
        IN  /\ (call.ret = SERIAL_ERR_OK) <=> (ok /\ transferred = size)
            /\ (call.ret = SERIAL_ERR_WRITE_SIZE_MISMATCH) <=> (ok /\ transferred # size)
            /\ (call.ret = SERIAL_ERR_WRITE_UNKNOWN) <=> ~ok

\* C6: setBaud returns SERIAL_ERR_OK when GetCommState and SetCommState both
\* succeed and SERIAL_ERR_UNKNOWN otherwise; on SERIAL_ERR_OK the baud rate of
\* the device and port->baud equal baudRate and no other DCB setting changed.
C6_SetBaud ==
    [][Step("setBaud") =>
        LET baudRate == call'.arg[1]
            okBoth == \A i \in DOMAIN call'.os : call'.os[i].ok
        IN  /\ call'.ret = IF okBoth THEN SERIAL_ERR_OK ELSE SERIAL_ERR_UNKNOWN
            /\ call'.ret = SERIAL_ERR_OK =>
                 /\ FromU32(dev'.BaudRate) = baudRate
                 /\ port'.baud = baudRate
                 /\ dev'.ByteSize = dev.ByteSize]_vars

\* C7: setTimeouts returns SERIAL_ERR_OK when SetCommTimeouts succeeds and
\* SERIAL_ERR_UNKNOWN otherwise; on SERIAL_ERR_OK the total read and write
\* timeout constants of the device and port->readTimeout / port->writeTimeout
\* equal the 64-bit arguments, the interval timeout and both multipliers are 0.
C7_SetTimeouts ==
    [][Step("setTimeouts") =>
        LET readTimeout == call'.arg[1]
            writeTimeout == call'.arg[2]
        IN  /\ call'.ret = IF call'.os[1].ok THEN SERIAL_ERR_OK ELSE SERIAL_ERR_UNKNOWN
            /\ call'.ret = SERIAL_ERR_OK =>
                 /\ FromU32(dev'.ReadTotalTimeoutConstant) = readTimeout
                 /\ FromU32(dev'.WriteTotalTimeoutConstant) = writeTimeout
                 /\ dev'.ReadIntervalTimeout = 0
                 /\ dev'.ReadTotalTimeoutMultiplier = 0
                 /\ dev'.WriteTotalTimeoutMultiplier = 0
                 /\ FromU32(port'.readTimeout) = readTimeout
                 /\ FromU32(port'.writeTimeout) = writeTimeout]_vars

\* No monitoring thread exists (the application thread is the only reader)
NoMonitor == \A t \in Threads : thr[t].pc = "none"

\* C8: bytesAvailable returns the number of queued bytes when ClearCommError
\* succeeds and -1 when it fails, and changes neither the queue nor the
\* structure; with no other reader, a serialPortRead of that many bytes that
\* follows it (its ReadFile succeeding) returns SERIAL_ERR_OK.
C8_BytesAvailable ==
    [][/\ Step("bytesAvailable") =>
            /\ call'.ret = IF call'.os[1].ok THEN Len(dev.inQ) ELSE -1
            /\ dev' = dev
            /\ port' = port
       /\ ( /\ call.op = "bytesAvailable"
            /\ call.ret > 0
            /\ NoMonitor
            /\ Step("serialPortRead")
            /\ call'.arg[1] = FromInt(call.ret)
            /\ call'.os[1].ok ) =>
            call'.ret = SERIAL_ERR_OK]_vars

\* C9: enableSerialEvent returns 0 when it registered the handler and started
\* the thread, and -1 when a handler is already registered, when event_handler
\* is NULL or when the thread could not be started.
C9_EnableReturn ==
    call.op = "enableSerialEvent" =>
        LET event_handler == call.arg[1]
            registered == call.arg[2]
            started == call.os # <<>> /\ call.os[1].ok
            success == event_handler # NULL /\ registered = NULL /\ started
        IN  call.ret = IF success THEN 0 ELSE -1

\* Byte number i arrived while a monitoring thread was serving the port
Monitored(i) == i <= Len(arrived) /\ arrived[i].monitored
\* Byte number i has been passed to the callback
Delivered(i) == \E k \in DOMAIN delivered : delivered[k] = i
\* The callback got bytes of the port only, each once and in arrival order
InOrderOnce ==
    \A k \in DOMAIN delivered :
        /\ delivered[k] \in 1..Len(arrived)
        /\ \A m \in DOMAIN delivered : m < k => delivered[m] < delivered[k]

\* C10: every byte that arrives on an open port with a registered handler is
\* eventually passed to the callback, also when no further byte arrives, and
\* the callback gets each byte once and in arrival order.
C10_Delivery ==
    /\ \A i \in 1..MaxArrive : Monitored(i) ~> Delivered(i)
    /\ []InOrderOnce

\* Thread t returns from isDataAvailable in this step and goes on with the
\* rest of the iteration
LeavesWait(t) ==
    /\ thr[t].pc \in {"SetCommMask", "WaitCommEvent"}
    /\ thr'[t].pc = "bytesAvailable"
\* Thread t returns from WaitCommEvent in this step with a receive event that
\* was latched on the open port
TookRxEvent(t) ==
    /\ thr[t].pc = "WaitCommEvent"
    /\ port.handle \in hOpen
    /\ dev.mask = EV_RXCHAR
    /\ dev.ev /\ ~dev'.ev

\* C11: the monitoring thread does not poll: its loop goes on to the read and
\* the callback only after it has blocked for and taken a new EV_RXCHAR event,
\* also when SetCommMask or WaitCommEvent fails or the port has been closed.
C11_NoPolling ==
    [][\A t \in Threads : LeavesWait(t) => TookRxEvent(t)]_vars

\* C12: isOpen tracks the two states of the port.  serialPortOpen leaves isOpen
\* TRUE exactly when it returns SERIAL_ERR_OK; serialPortClose clears it exactly
\* when it returns SERIAL_ERR_OK and leaves it otherwise; no other call and no
\* step of the monitoring thread changes it.  Hence after any calls of which one
\* is serialPortOpen, isOpen holds iff the most recent serialPortOpen returned
\* SERIAL_ERR_OK and no serialPortClose returned SERIAL_ERR_OK since.
C12_IsOpen ==
    [][/\ Step("serialPortOpen") => (port'.isOpen <=> call'.ret = SERIAL_ERR_OK)
       /\ Step("serialPortClose") =>
            (port'.isOpen <=> (port.isOpen /\ call'.ret # SERIAL_ERR_OK))
       /\ ~(Step("serialPortOpen") \/ Step("serialPortClose")) =>
            port'.isOpen = port.isOpen]_vars

\* A port was opened and closed, and a further serialPortClose has failed: the
\* port is still marked closed
C12_Witness ==
    /\ call.op = "serialPortClose"
    /\ call.ret = SERIAL_ERR_CLOSE
    /\ nCalls = MaxCalls
    /\ port.handle \in Handles
    /\ hOpen = {}
    /\ ~port.isOpen

\* The monitoring thread t has been started by enableSerialEvent
Started(t) == thr[t].pc # "none"

\* C13: the monitoring thread has no cancellation: once enableSerialEvent has
\* started it, no API call ends it or stops it from invoking the callback;
\* after a successful serialPortClose it goes on iterating on the closed handle
\* and invoking the registered callback.
C13_NoCancellation ==
    \A t \in Threads : Started(t) => (~crashed /\ port.serialEventHandler # NULL)

====
